---- MODULE Spec2Model ----
(***************************************************************************)
(* Model of generate_nacha_file (src/index.py): the encoder that turns two *)
(* CSV tables (bank rows, amount rows) into a NACHA ACH file.              *)
(*                                                                         *)
(* Text is modelled as a sequence of one-character strings, so that every  *)
(* padding, slicing and number-to-text conversion is computed as Python    *)
(* computes it.  Python floats are IEEE-754 doubles: float() and the       *)
(* multiplication by 100 are modelled bit-exactly on binary digit          *)
(* sequences (most significant bit first), with round-half-to-even.        *)
(***************************************************************************)
EXTENDS Integers, Sequences, FiniteSets, TLC

(* ---------------------------------------------------------------------- *)
(* Python string primitives                                               *)
(* ---------------------------------------------------------------------- *)
NL == "\n"
SP == " "

DigitChars == <<"0", "1", "2", "3", "4", "5", "6", "7", "8", "9">>

IsDigit(c) == \E d \in 1..10 : DigitChars[d] = c

DigitVal(c) == (CHOOSE d \in 1..10 : DigitChars[d] = c) - 1

Rep(c, n) == [k \in 1..n |-> c]

Front(s) == SubSeq(s, 1, Len(s) - 1)

Last(s) == s[Len(s)]

\* s[:n]
Prefix(s, n) == SubSeq(s, 1, IF Len(s) < n THEN Len(s) ELSE n)

\* s.ljust(n): pad with spaces on the right, never truncate
Ljust(s, n) == IF Len(s) >= n THEN s ELSE s \o Rep(SP, n - Len(s))

\* s.rjust(n, c): pad with c on the left, never truncate
Rjust(s, n, c) == IF Len(s) >= n THEN s ELSE Rep(c, n - Len(s)) \o s

\* s.zfill(n): zero padding on the left, after a leading sign
Zfill(s, n) ==
    IF Len(s) >= n THEN s
    ELSE IF s # <<>> /\ s[1] \in {"-", "+"}
         THEN <<s[1]>> \o Rep("0", n - Len(s)) \o Tail(s)
         ELSE Rep("0", n - Len(s)) \o s

RECURSIVE LStrip(_)
LStrip(s) == IF s # <<>> /\ Head(s) = SP THEN LStrip(Tail(s)) ELSE s

RECURSIVE RStrip(_)
RStrip(s) == IF s # <<>> /\ Last(s) = SP THEN RStrip(Front(s)) ELSE s

\* s.strip()
Strip(s) == RStrip(LStrip(s))

RECURSIVE NatStr(_)
NatStr(n) == IF n < 10 THEN <<DigitChars[n + 1]>>
             ELSE NatStr(n \div 10) \o <<DigitChars[(n % 10) + 1]>>

\* str(n) of a Python int
IntStr(n) == IF n < 0 THEN <<"-">> \o NatStr(0 - n) ELSE NatStr(n)

\* f"{n:0w}": sign-aware zero padding to a minimum width w
FormatZero(n, w) == Zfill(IntStr(n), w)

RECURSIVE DigitsVal(_)
DigitsVal(s) == IF s = <<>> THEN 0 ELSE 10 * DigitsVal(Front(s)) + DigitVal(Last(s))

AllDigits(s) == s # <<>> /\ \A k \in 1..Len(s) : IsDigit(s[k])

(* int(s) for the texts the routing column holds here: optional blanks    *)
(* around a run of decimal digits; anything else raises ValueError.        *)
PyIntOk(s) == AllDigits(Strip(s))

PyInt(s) == DigitsVal(Strip(s))

(* ---------------------------------------------------------------------- *)
(* IEEE-754 double arithmetic on bit sequences (MSB first)                 *)
(* ---------------------------------------------------------------------- *)
Mantissa == 53

RECURSIVE NatToBits(_)
NatToBits(n) == IF n = 0 THEN <<>> ELSE NatToBits(n \div 2) \o <<n % 2>>

RECURSIVE BitsToNat(_)
BitsToNat(b) == IF b = <<>> THEN 0 ELSE 2 * BitsToNat(Front(b)) + Last(b)

RECURSIVE Pow2(_)
Pow2(k) == IF k = 0 THEN 1 ELSE 2 * Pow2(k - 1)

RECURSIVE Pow10(_)
Pow10(k) == IF k = 0 THEN 1 ELSE 10 * Pow10(k - 1)

\* 2^k mod d
RECURSIVE Pow2Mod(_, _)
Pow2Mod(k, d) == IF k = 0 THEN 1 % d ELSE (2 * Pow2Mod(k - 1, d)) % d

\* strip leading zero bits
Norm(b) ==
    IF \A k \in 1..Len(b) : b[k] = 0 THEN <<>>
    ELSE SubSeq(b, CHOOSE k \in 1..Len(b) : b[k] = 1 /\ \A h \in 1..(k - 1) : b[h] = 0, Len(b))

PadBits(b, w) == IF Len(b) >= w THEN b ELSE Rep(0, w - Len(b)) \o b

ShiftL(b, j) == b \o Rep(0, j)

\* b + 1
Inc(b) ==
    IF \A k \in 1..Len(b) : b[k] = 1 THEN <<1>> \o Rep(0, Len(b))
    ELSE LET z == CHOOSE k \in 1..Len(b) : b[k] = 0 /\ \A h \in (k + 1)..Len(b) : b[h] = 1
         IN  SubSeq(b, 1, z - 1) \o <<1>> \o Rep(0, Len(b) - z)

\* b * c for a small positive integer c, on three limbs of 18 bits
MulSmall(b, c) ==
    LET Limb == 18
        w  == PadBits(b, 3 * Limb)
        lo == BitsToNat(SubSeq(w, Len(w) - Limb + 1, Len(w))) * c
        mi == BitsToNat(SubSeq(w, Len(w) - 2 * Limb + 1, Len(w) - Limb)) * c
                 + lo \div Pow2(Limb)
        hi == BitsToNat(SubSeq(w, 1, Len(w) - 2 * Limb)) * c + mi \div Pow2(Limb)
    IN  Norm(NatToBits(hi) \o PadBits(NatToBits(mi % Pow2(Limb)), Limb)
                           \o PadBits(NatToBits(lo % Pow2(Limb)), Limb))

\* drop the s low bits of b, rounding to nearest, ties to even
RoundDrop(b, s) ==
    LET kept    == SubSeq(b, 1, Len(b) - s)
        dropped == SubSeq(b, Len(b) - s + 1, Len(b))
        half    == dropped # <<>> /\ dropped[1] = 1
        sticky  == \E k \in 2..Len(dropped) : dropped[k] = 1
        odd     == kept # <<>> /\ Last(kept) = 1
    IN  IF half /\ (sticky \/ odd) THEN Inc(kept) ELSE kept

\* the i-th binary digit after the point of r / d, for 0 <= r < d
FracBit(r, d, i) == (2 * ((Pow2Mod(i - 1, d) * r) % d)) \div d

(* A double is [neg, m, e]: value (-1)^neg * m * 2^e, m a bit sequence.    *)
(* DecToDouble(neg, n, k) is float() of the decimal n / 10^k: the nearest  *)
(* double, ties to even.                                                   *)
DecToDouble(neg, n, k) ==
    IF n = 0 THEN [neg |-> neg, m |-> <<>>, e |-> 0]
    ELSE LET d    == Pow10(k)
             ib   == NatToBits(n \div d)
             r    == n % d
             lead == IF ib # <<>> THEN 0
                     ELSE (CHOOSE i \in 1..Mantissa :
                             /\ FracBit(r, d, i) = 1
                             /\ \A h \in 1..(i - 1) : FracBit(r, d, h) = 0) - 1
             j    == Mantissa - Len(ib) + lead
             quo  == Norm(ib \o [i \in 1..j |-> FracBit(r, d, i)])
             rem  == (Pow2Mod(j, d) * r) % d
             up   == 2 * rem > d \/ (2 * rem = d /\ Last(quo) = 1)
         IN  [neg |-> neg, m |-> IF up THEN Inc(quo) ELSE quo, e |-> 0 - j]

\* x * c for a double x and a small positive integer c, correctly rounded
DoubleMul(x, c) ==
    LET p == MulSmall(x.m, c)
        s == IF Len(p) > Mantissa THEN Len(p) - Mantissa ELSE 0
    IN  [neg |-> x.neg, m |-> RoundDrop(p, s), e |-> x.e + s]

\* int(x): truncation toward zero
DoubleToInt(x) ==
    LET mag == IF x.e >= 0 THEN BitsToNat(ShiftL(x.m, x.e))
               ELSE IF 0 - x.e >= Len(x.m) THEN 0
               ELSE BitsToNat(SubSeq(x.m, 1, Len(x.m) + x.e))
    IN  IF x.neg THEN 0 - mag ELSE mag

(* float(s) for the texts the amount column holds here: optional blanks,   *)
(* an optional sign, digits, optionally a point and more digits.  Anything *)
(* else raises ValueError.                                                 *)
Unsigned(s) == IF s # <<>> /\ s[1] \in {"-", "+"} THEN Tail(s) ELSE s

PointAt(s) == IF \E k \in 1..Len(s) : s[k] = "."
              THEN CHOOSE k \in 1..Len(s) : s[k] = "." ELSE 0

IntPart(s) == IF PointAt(s) = 0 THEN s ELSE SubSeq(s, 1, PointAt(s) - 1)

FracPart(s) == IF PointAt(s) = 0 THEN <<>> ELSE SubSeq(s, PointAt(s) + 1, Len(s))

PyFloatOk(s) ==
    LET u == Unsigned(Strip(s))
    IN  /\ IntPart(u) \o FracPart(u) # <<>>
        /\ \A k \in 1..Len(IntPart(u)) : IsDigit(IntPart(u)[k])
        /\ \A k \in 1..Len(FracPart(u)) : IsDigit(FracPart(u)[k])

IsNeg(s) == Strip(s) # <<>> /\ Strip(s)[1] = "-"

PyFloat(s) ==
    LET u == Unsigned(Strip(s))
    IN  DecToDouble(IsNeg(s), DigitsVal(IntPart(u) \o FracPart(u)), Len(FracPart(u)))

\* int(float(amount["Amount"]) * 100)
AmountInCents(s) == DoubleToInt(DoubleMul(PyFloat(s), 100))

(* ---------------------------------------------------------------------- *)
(* Python ints beyond 31 bits: entry_hash is kept as hi * 10^8 + lo        *)
(* ---------------------------------------------------------------------- *)
WideZero == [hi |-> 0, lo |-> 0]

\* w + n for 0 <= n < 10^8
WideAdd(w, n) == [hi |-> w.hi + (w.lo + n) \div Pow10(8), lo |-> (w.lo + n) % Pow10(8)]

\* str(w)
WideStr(w) == IF w.hi = 0 THEN NatStr(w.lo) ELSE NatStr(w.hi) \o Zfill(NatStr(w.lo), 8)

(* ---------------------------------------------------------------------- *)
(* Inputs: the rows csv.DictReader returns for the two files               *)
(* ---------------------------------------------------------------------- *)
MaxRows == 3

MaxLong == 124

BankRow(dfi, account, id, name) ==
    ("Receiving DFI" :> dfi) @@ ("Account Number" :> account)
        @@ ("Individual ID" :> id) @@ ("Individual Name" :> name)

AmountRow(a) == ("Amount" :> a)

BankPool == <<
    BankRow(<<"1","2","3","4","5","6","7","8","0">>, <<"1","2","3","4","5","6","7","8">>,
            <<"I","D","1">>, <<"A","l">>),
    BankRow(<<"9","8","7","6","5","4","3","2","0">>, <<>>, <<>>, <<>>),
    BankRow(<<SP,"0","1","1","0","0","0","0","1","5",SP>>, Rep("7", 18), Rep("X", 16), Rep("N", 23)),
    BankRow(<<"1","2","3","4">>, <<SP,"4","2",SP>>, <<"I","D","4">>, <<"B","o",SP,"D">>),
    BankRow(<<>>, <<"5">>, <<"I","D","5">>, <<"C","y">>),
    BankRow(<<"1","2","A","4","5","6","7","8","0">>, <<"6">>, <<"I","D","6">>, <<"D","i">>) >>

AmountPool == <<
    AmountRow(<<"2","5",".","5","0">>),
    AmountRow(<<"-","1","0",".","0","0">>),
    AmountRow(<<"1","0","0",".","0","0">>),
    AmountRow(<<"-","5","0",".","0","0">>),
    AmountRow(<<"0",".","0","0">>),
    AmountRow(<<"1","0",".","0","0","4">>),
    AmountRow(<<"1","0",".","0","0","6">>),
    AmountRow(<<"0",".","0","0","5">>),
    AmountRow(<<"-","1","0",".","0","0","6">>),
    AmountRow(<<"0",".","2","9">>),
    AmountRow(<<"-","1","0","0","0","0","0","0","0",".","0","0">>),
    AmountRow(<<"a","b","c">>) >>

\* n consecutive rows of a pool, starting at row s and wrapping around
Window(pool, s, n) == [k \in 1..n |-> pool[((s + k - 2) % Len(pool)) + 1]]

Windows(pool) == {Window(pool, s, n) : s \in 1..Len(pool), n \in 0..MaxRows}

\* long files: routing prefixes 99999999, and 45679024 in row 124
LongBanks(n) ==
    [k \in 1..n |->
        BankRow(IF k = 124 THEN <<"4","5","6","7","9","0","2","4","0">> ELSE Rep("9", 9),
                NatStr(k), <<"I","D">>, <<"L","o","n","g">>)]

LongAmounts(n) == [k \in 1..n |-> AmountRow(<<"1",".","0","0">>)]

LongLens == {6, 16} \cup (124..MaxLong)

Inputs ==
    {[banks |-> b, amounts |-> a] : b \in Windows(BankPool), a \in Windows(AmountPool)}
        \cup {[banks |-> LongBanks(n), amounts |-> LongAmounts(n)] : n \in LongLens}

\* datetime.now(), as the pair strftime("%y%m%d"), strftime("%H%M")
Nows == { [date |-> <<"2","6","1","1","0","4">>, time |-> <<"0","9","3","0">>],
          [date |-> <<"9","9","1","2","3","1">>, time |-> <<"2","3","5","9">>] }

(* ---------------------------------------------------------------------- *)
(* State of one call of generate_nacha_file                                *)
(* ---------------------------------------------------------------------- *)
VARIABLES
    amounts_csv, banks_csv,        \* contents of the two input files
    output_file,                   \* text of the output file, <<>> while absent
    opens, writes,                 \* number of open(output_file, 'w') and write calls
    pc, err,                       \* position in the function, exception raised
    batch_count, amounts_data, banks_data,
    file_creation_date, file_creation_time,
    file_header, batch_header,
    idx,                           \* number of pairs zip() has handed out
    batch_num, entry_details, entry_hash, total_debit, total_credit, entry_count,
    amount_in_cents,               \* value of the last iteration
    batch_control, file_control, block_count, nacha_content

vars == << amounts_csv, banks_csv, output_file, opens, writes, pc, err,
           batch_count, amounts_data, banks_data,
           file_creation_date, file_creation_time, file_header, batch_header,
           idx, batch_num, entry_details, entry_hash, total_debit, total_credit,
           entry_count, amount_in_cents, batch_control, file_control, block_count,
           nacha_content >>

io == << amounts_csv, banks_csv, output_file, opens, writes >>

headers == << file_creation_date, file_creation_time, file_header, batch_header >>

accum == << batch_num, entry_details, entry_hash, total_debit, total_credit,
            entry_count, amount_in_cents >>

controls == << batch_control, file_control, block_count, nacha_content >>

\* constants of the function body
immediate_dest == <<"1","2","3","4","5","6","7","8","9">>
immediate_org == <<"1","2","3","4","5","6","7","8","9">>
file_id_modifier == <<"A">>
record_size == <<"0","9","4">>
blocking_factor == <<"1","0">>
format_code == <<"1">>
immediate_dest_name == Ljust(<<"S","o","m","e","B","a","n","k","N","a","m","e">>, 23)
immediate_org_name == Ljust(<<"M","y","C","o","m","p","a","n","y">>, 23)
reference_code == Ljust(<<SP>>, 8)
service_class_code == <<"2","2","0">>
company_name == Ljust(<<"M","y",SP,"C","o","m","p","a","n","y">>, 16)
company_discretionary_data_padded == Ljust(<<>>, 20)
company_id == Ljust(<<"1","2","3","4","5","6","7","8","9">>, 10)
entry_descr == Ljust(<<"P","M","T">>, 10)
settlement_date_padded == Ljust(<<>>, 3)
originating_dfi == Prefix(immediate_dest, 8)
initial_batch_num == 1
transaction_code == <<"2","2">>
discretionary_data == Ljust(<<"R">>, 2)
bc_message_auth_code_padded == Ljust(<<>>, 19)

Min(a, b) == IF a < b THEN a ELSE b

\* number of pairs zip(banks_data, amounts_data) yields
Pairs == Min(Len(banks_data), Len(amounts_data))

Init ==
    /\ \E in \in Inputs : banks_csv = in.banks /\ amounts_csv = in.amounts
    /\ output_file = <<>> /\ opens = 0 /\ writes = 0
    /\ pc = "start" /\ err = "none"
    /\ batch_count = 1
    /\ amounts_data = <<>> /\ banks_data = <<>>
    /\ file_creation_date = <<>> /\ file_creation_time = <<>>
    /\ file_header = <<>> /\ batch_header = <<>>
    /\ idx = 0 /\ batch_num = 0 /\ entry_details = <<>> /\ entry_hash = WideZero
    /\ total_debit = 0 /\ total_credit = 0 /\ entry_count = 0 /\ amount_in_cents = 0
    /\ batch_control = <<>> /\ file_control = <<>> /\ block_count = 0
    /\ nacha_content = <<>>

\* lines 17-18: parse_csv of both files
Load ==
    /\ pc = "start"
    /\ amounts_data' = amounts_csv
    /\ banks_data' = banks_csv
    /\ pc' = "check"
    /\ UNCHANGED << io, err, batch_count, headers, idx, accum, controls >>

\* lines 20-21 without the emptiness test
CheckEmptySkipped ==
    /\ pc = "check"
    /\ pc' = "file_header"
    /\ UNCHANGED << io, err, batch_count, amounts_data, banks_data, headers, idx, accum, controls >>

\* lines 20-21 also rejecting inputs of different lengths
CheckEmptyOrUneven ==
    /\ pc = "check"
    /\ IF amounts_data = <<>> \/ banks_data = <<>> \/ Len(amounts_data) # Len(banks_data)
       THEN pc' = "error" /\ err' = "ValueError: empty"
       ELSE pc' = "file_header" /\ err' = err
    /\ UNCHANGED << io, batch_count, amounts_data, banks_data, headers, idx, accum, controls >>

\* lines 20-21
CheckEmpty ==
    /\ pc = "check"
    /\ IF amounts_data = <<>> \/ banks_data = <<>>
       THEN pc' = "error" /\ err' = "ValueError: empty"
       ELSE pc' = "file_header" /\ err' = err
    /\ UNCHANGED << io, batch_count, amounts_data, banks_data, headers, idx, accum, controls >>

\* lines 28-45
FileHeader ==
    /\ pc = "file_header"
    /\ \E now \in Nows :
        /\ file_creation_date' = now.date
        /\ file_creation_time' = now.time
        /\ file_header' =
             Ljust(<<"1","0","1",SP>> \o immediate_dest \o <<SP>> \o immediate_org
                   \o now.date \o now.time \o file_id_modifier \o record_size
                   \o blocking_factor \o format_code \o immediate_dest_name
                   \o immediate_org_name \o reference_code \o <<NL>>, 94)
    /\ pc' = "batch_header"
    /\ UNCHANGED << io, err, batch_count, amounts_data, banks_data, batch_header,
                    idx, accum, controls >>

\* lines 53-82
BatchHeader ==
    /\ pc = "batch_header"
    /\ batch_num' = 1
    /\ batch_header' =
         Ljust(<<"5">> \o service_class_code \o company_name
               \o company_discretionary_data_padded \o company_id \o <<"P","P","D">>
               \o entry_descr \o file_creation_date \o file_creation_date
               \o settlement_date_padded \o <<"1">> \o originating_dfi
               \o Zfill(IntStr(initial_batch_num), 7) \o <<NL>>, 94)
    /\ entry_details' = <<>>
    /\ entry_hash' = WideZero
    /\ total_debit' = 0
    /\ total_credit' = 0
    /\ entry_count' = 0
    /\ pc' = "loop"
    /\ UNCHANGED << io, err, batch_count, amounts_data, banks_data, file_creation_date,
                    file_creation_time, file_header, idx, amount_in_cents, controls >>

Abs(n) == IF n < 0 THEN 0 - n ELSE n

\* line 101
CreditPart(cents) == IF cents > 0 THEN cents ELSE 0

\* line 102 without abs()
DebitPartSigned(cents) == IF cents < 0 THEN cents ELSE 0

\* line 102
DebitPart(cents) == IF cents < 0 THEN Abs(cents) ELSE 0

\* the fields of one Entry Detail record, lines 85-94
ReceivingDfi(bank) == Ljust(Prefix(Strip(bank["Receiving DFI"]), 8), 8)
CheckDigit(bank) == <<Last(Strip(bank["Receiving DFI"]))>>
AccountNumber(bank) == Rjust(Prefix(Strip(bank["Account Number"]), 17), 17, SP)
IndividualId(bank) == Ljust(Prefix(Strip(bank["Individual ID"]), 15), 15)
IndividualName(bank) == Ljust(Prefix(Strip(bank["Individual Name"]), 22), 22)
\* line 94 numbering from the incremented counter
TraceNumberAfterIncrement(n) == Prefix(immediate_dest, 8) \o Zfill(IntStr(n + 1), 7)

TraceNumber(n) == Prefix(immediate_dest, 8) \o Zfill(IntStr(n), 7)

\* lines 108-111
EntryDetail(bank, cents, trace) ==
    Ljust(<<"6">> \o transaction_code \o ReceivingDfi(bank) \o CheckDigit(bank)
          \o AccountNumber(bank) \o FormatZero(cents, 10) \o IndividualId(bank)
          \o IndividualName(bank) \o discretionary_data \o <<"0">> \o trace
          \o <<NL>>, 94)

\* lines 84-111: one iteration of the loop over zip(banks_data, amounts_data)
Entry ==
    /\ pc = "loop"
    /\ idx < Pairs
    /\ idx' = idx + 1
    /\ LET bank   == banks_data[idx + 1]
           amount == amounts_data[idx + 1]
           cents  == AmountInCents(amount["Amount"])
           credit == total_credit + CreditPart(cents)
           debit  == total_debit + DebitPart(cents)
       IN  IF Strip(bank["Receiving DFI"]) = <<>>
           THEN \* line 86: index out of range
                /\ pc' = "error" /\ err' = "IndexError"
                /\ UNCHANGED accum
           ELSE IF ~PyFloatOk(amount["Amount"])
           THEN \* line 98: float() fails, after line 95
                /\ pc' = "error" /\ err' = "ValueError: float"
                /\ batch_num' = batch_num + 1
                /\ UNCHANGED << entry_details, entry_hash, total_debit, total_credit,
                                entry_count, amount_in_cents >>
           ELSE IF ~PyIntOk(ReceivingDfi(bank))
           THEN \* line 105: int() fails, after lines 95-102
                /\ pc' = "error" /\ err' = "ValueError: int"
                /\ batch_num' = batch_num + 1
                /\ amount_in_cents' = cents
                /\ total_credit' = credit
                /\ total_debit' = debit
                /\ UNCHANGED << entry_details, entry_hash, entry_count >>
           ELSE /\ pc' = "loop" /\ err' = err
                /\ batch_num' = batch_num + 1
                /\ amount_in_cents' = cents
                /\ total_credit' = credit
                /\ total_debit' = debit
                /\ entry_hash' = WideAdd(entry_hash, PyInt(Prefix(ReceivingDfi(bank), 8)))
                /\ entry_count' = entry_count + 1
                /\ entry_details' =
                     entry_details \o EntryDetail(bank, cents, TraceNumber(batch_num))
    /\ UNCHANGED << io, batch_count, amounts_data, banks_data, headers, controls >>

\* lines 116-119
bc_addenda_count == Zfill(IntStr(entry_count), 6)
\* line 117 keeping the rightmost ten digits
entry_hash_str_low ==
    LET str == WideStr(entry_hash)
    IN  Rjust(SubSeq(str, IF Len(str) > 10 THEN Len(str) - 9 ELSE 1, Len(str)), 10, "0")

entry_hash_str == Rjust(Prefix(WideStr(entry_hash), 10), 10, "0")
total_debit_str == FormatZero(total_debit, 12)
total_credit_str == FormatZero(total_credit, 12)

\* lines 116-130, once zip() is exhausted
BatchControl ==
    /\ pc = "loop"
    /\ idx >= Pairs
    /\ batch_control' =
         Ljust(<<"8">> \o service_class_code \o bc_addenda_count \o entry_hash_str
               \o total_debit_str \o total_credit_str \o company_id
               \o bc_message_auth_code_padded \o Ljust(<<>>, 6)
               \o originating_dfi \o Zfill(IntStr(initial_batch_num), 7) \o <<NL>>, 94)
    /\ pc' = "file_control"
    /\ UNCHANGED << io, err, batch_count, amounts_data, banks_data, headers, idx, accum,
                    file_control, block_count, nacha_content >>

\* line 136 as a plain ceiling of (n + 4) / 10
BlockCountCeil(n) == (n + 4 + 9) \div 10

\* line 136
BlockCount(n) == ((n + 4) \div 10) + 1

\* lines 136-142
FileControl ==
    /\ pc = "file_control"
    /\ block_count' = BlockCount(entry_count)
    /\ file_control' =
         Ljust(<<"9">> \o Zfill(IntStr(batch_count), 6)
               \o Rjust(IntStr(BlockCount(entry_count)), 6, "0")
               \o Zfill(IntStr(entry_count), 8) \o entry_hash_str
               \o total_debit_str \o total_credit_str \o Ljust(<<>>, 39) \o <<NL>>, 94)
    /\ pc' = "write"
    /\ UNCHANGED << io, err, batch_count, amounts_data, banks_data, headers, idx, accum,
                    batch_control, nacha_content >>

\* line 145 with the batch control ahead of the entries
NachaContentControlFirst ==
    file_header \o batch_header \o batch_control \o entry_details \o file_control

\* line 145
NachaContent == file_header \o batch_header \o entry_details \o batch_control \o file_control

\* lines 145-149
Write ==
    /\ pc = "write"
    /\ nacha_content' = NachaContent
    /\ opens' = opens + 1
    /\ writes' = writes + 1
    /\ output_file' = nacha_content'
    /\ pc' = "done"
    /\ UNCHANGED << amounts_csv, banks_csv, err, batch_count, amounts_data, banks_data,
                    headers, idx, accum, batch_control, file_control, block_count >>

Next == Load \/ CheckEmpty \/ FileHeader \/ BatchHeader \/ Entry \/ BatchControl
          \/ FileControl \/ Write

Spec == Init /\ [][Next]_vars

(* ---------------------------------------------------------------------- *)
(* Reading the output back: lines, fields, and sums over the input         *)
(* ---------------------------------------------------------------------- *)
LineEnds(t) == {i \in 1..Len(t) : t[i] = NL}

\* the text split at its line terminators; the terminators are not part of a line
LinesOf(t) ==
    LET E    == LineEnds(t)
        n    == Cardinality(E)
        rank == [q \in E |-> Cardinality({h \in E : h <= q})]
        end  == [k \in 0..n |-> IF k = 0 THEN 0 ELSE CHOOSE q \in E : rank[q] = k]
    IN  [k \in 1..n |-> SubSeq(t, end[k - 1] + 1, end[k] - 1)]

Terminated(t) == t # <<>> /\ Last(t) = NL

Lines == LinesOf(output_file)

Field(line, from, width) == SubSeq(line, from, from + width - 1)

Suffix(line, width) == SubSeq(line, Len(line) - width + 1, Len(line))

RECURSIVE SumRange(_, _, _)
SumRange(f, lo, hi) ==
    IF lo > hi THEN 0
    ELSE IF lo = hi THEN f[lo]
    ELSE SumRange(f, lo, (lo + hi) \div 2) + SumRange(f, ((lo + hi) \div 2) + 1, hi)

\* cent amount of the k-th amount row
Cents(k) == AmountInCents(amounts_data[k]["Amount"])

CreditSum(n) == SumRange([k \in 1..n |-> IF Cents(k) > 0 THEN Cents(k) ELSE 0], 1, n)

DebitSum(n) == SumRange([k \in 1..n |-> IF Cents(k) < 0 THEN 0 - Cents(k) ELSE 0], 1, n)

\* numeric value of the first 8 routing digits of the k-th bank row
RoutingPrefix(k) == DigitsVal(Strip(SubSeq(Strip(banks_data[k]["Receiving DFI"]), 1,
                        Min(8, Len(Strip(banks_data[k]["Receiving DFI"]))))))

\* decimal string of the sum of the routing prefixes of rows 1..n, summed in two halves
\* of four digits so that no partial sum leaves the 31-bit range
HashSumStr(n) ==
    LET upper == SumRange([k \in 1..n |-> RoutingPrefix(k) \div 10000], 1, n)
        lower == SumRange([k \in 1..n |-> RoutingPrefix(k) % 10000], 1, n)
        low8  == (upper % 10000) * 10000 + lower
        top   == upper \div 10000 + low8 \div Pow10(8)
    IN  IF top = 0 THEN NatStr(low8) ELSE NatStr(top) \o Rep("0", 8 - Len(NatStr(low8 % Pow10(8))))
                                                     \o NatStr(low8 % Pow10(8))

\* the ten-character hash field for a decimal string of a sum
HashField(str) == IF Len(str) <= 10 THEN Rep("0", 10 - Len(str)) \o str
                  ELSE SubSeq(str, 1, 10)

Digits(n, w) == Rep("0", w - Len(NatStr(n))) \o NatStr(n)

AmountText(k) == amounts_data[k]["Amount"]

Built == pc \in {"file_control", "write", "done"}

(* ---------------------------------------------------------------------- *)
(* C1 - fixed width                                                        *)
(* ---------------------------------------------------------------------- *)
\* C1: every line of the written file has exactly 94 characters, whatever the
\* input: empty text fields, over-long text fields, amounts of any size and sign.
C1_EveryLineIs94 ==
    LET L == Lines IN
    pc = "done" => \A k \in DOMAIN L : Len(L[k]) = 94

(* ---------------------------------------------------------------------- *)
(* C2 - record order                                                       *)
(* ---------------------------------------------------------------------- *)
\* C2: the written file is one File Header line, one Batch Header line, the N
\* Entry Detail lines in input order (line k encodes input pair k), one Batch
\* Control line and one File Control line, each ended by a newline; the headers
\* exist before any entry is encoded and the control records are built only
\* after all N entries.
C2_RecordOrder ==
    LET L == Lines IN
    /\ pc = "done" =>
         /\ Terminated(output_file)
         /\ Len(L) = Pairs + 4
         /\ L[1] \o <<NL>> = file_header /\ L[1][1] = "1"
         /\ L[2] \o <<NL>> = batch_header /\ L[2][1] = "5"
         /\ \A k \in 1..Pairs :
              /\ L[2 + k][1] = "6"
              /\ L[2 + k] \o <<NL>>
                   = EntryDetail(banks_data[k], Cents(k), originating_dfi \o Digits(k, 7))
         /\ L[Pairs + 3] \o <<NL>> = batch_control /\ L[Pairs + 3][1] = "8"
         /\ L[Pairs + 4] \o <<NL>> = file_control /\ L[Pairs + 4][1] = "9"
    /\ entry_details # <<>> => file_header # <<>> /\ batch_header # <<>>
    /\ batch_control # <<>> => idx = Pairs /\ entry_count = Pairs
    /\ file_control # <<>> => batch_control # <<>>

\* a file of three entries has been written
C2_Witness ==
    LET L == Lines IN
    /\ pc = "done" /\ Pairs = 3 /\ Len(L) = 7
    /\ Field(L[4], 13, 17) = AccountNumber(banks_data[2])

(* ---------------------------------------------------------------------- *)
(* C3 - totals and count                                                   *)
(* ---------------------------------------------------------------------- *)
\* C3: after N entries, Batch Control and File Control both carry entry count N,
\* total credit = sum of the positive cent amounts, total debit = sum of the
\* absolute negative cent amounts; a zero amount adds to neither total but is
\* counted and hashed ([100.00, -50.00, 0.00] -> credit 10000, debit 5000, count 3).
C3_Totals ==
    LET L == Lines IN
    pc = "done" =>
      LET bc == L[Pairs + 3]
          fc == L[Pairs + 4]
      IN  /\ Field(bc, 5, 6) = Digits(Pairs, 6)
          /\ Field(fc, 14, 8) = Digits(Pairs, 8)
          /\ Field(bc, 33, 12) = Digits(CreditSum(Pairs), 12)
          /\ Field(fc, 44, 12) = Digits(CreditSum(Pairs), 12)
          /\ Field(bc, 21, 12) = Digits(DebitSum(Pairs), 12)
          /\ Field(fc, 32, 12) = Digits(DebitSum(Pairs), 12)
          /\ Len(HashSumStr(Pairs)) <= 10 =>
                /\ Field(bc, 11, 10) = Rep("0", 10 - Len(HashSumStr(Pairs))) \o HashSumStr(Pairs)
                /\ Field(fc, 22, 10) = Field(bc, 11, 10)
          /\ ( /\ Pairs = 3
               /\ AmountText(1) = <<"1","0","0",".","0","0">>
               /\ AmountText(2) = <<"-","5","0",".","0","0">>
               /\ AmountText(3) = <<"0",".","0","0">> )
             => /\ Field(bc, 33, 12) = <<"0","0","0","0","0","0","0","1","0","0","0","0">>
                /\ Field(bc, 21, 12) = <<"0","0","0","0","0","0","0","0","5","0","0","0">>
                /\ Field(bc, 5, 6) = <<"0","0","0","0","0","3">>

\* the file for amounts [100.00, -50.00, 0.00] has been written
C3_Witness ==
    /\ pc = "done" /\ Pairs = 3
    /\ AmountText(1) = <<"1","0","0",".","0","0">>
    /\ AmountText(2) = <<"-","5","0",".","0","0">>
    /\ AmountText(3) = <<"0",".","0","0">>
    /\ total_credit = 10000 /\ total_debit = 5000 /\ entry_count = 3

(* ---------------------------------------------------------------------- *)
(* C4 - amount field                                                       *)
(* ---------------------------------------------------------------------- *)
\* C4: in every Entry Detail line the transaction code is "22" and the ten
\* characters of the amount field are the ten zero-padded decimal digits of the
\* entry's cent amount, for credits and debits alike (25.50 -> "0000002550",
\* -10.00 -> "0000001000").
C4_AmountFieldTenDigits ==
    LET L == Lines IN
    pc = "done" =>
      \A k \in 1..Pairs :
          /\ Field(L[2 + k], 2, 2) = <<"2","2">>
          /\ Field(L[2 + k], 30, 10) = Digits(Abs(Cents(k)), 10)

(* ---------------------------------------------------------------------- *)
(* C5 - entry hash field                                                   *)
(* ---------------------------------------------------------------------- *)
\* C5: the hash field of Batch Control and of File Control is the decimal string
\* of the sum of the 8-digit routing prefixes of all entries, zero-padded on the
\* left to 10 when it has at most 10 digits and cut to its leftmost 10 digits
\* when it has more (12345678901 -> "1234567890", 111111110 -> "0111111110").
C5_HashField ==
    LET L == Lines IN
    /\ Built => WideStr(entry_hash) = HashSumStr(Pairs)
    /\ pc = "done" =>
         /\ Field(L[Pairs + 3], 11, 10) = HashField(HashSumStr(Pairs))
         /\ Field(L[Pairs + 4], 22, 10) = HashField(HashSumStr(Pairs))
         /\ HashSumStr(Pairs) = <<"1","2","3","4","5","6","7","8","9","0","1">>
              => Field(L[Pairs + 3], 11, 10) = <<"1","2","3","4","5","6","7","8","9","0">>
         /\ HashSumStr(Pairs) = <<"1","1","1","1","1","1","1","1","0">>
              => Field(L[Pairs + 3], 11, 10) = <<"0","1","1","1","1","1","1","1","1","0">>

\* a file whose routing prefixes sum to 12345678901 has been written
C5_Witness ==
    LET L == Lines IN
    /\ pc = "done"
    /\ entry_hash = [hi |-> 123, lo |-> 45678901]
    /\ Field(L[Pairs + 4], 22, 10) = <<"1","2","3","4","5","6","7","8","9","0">>

(* ---------------------------------------------------------------------- *)
(* C6 - cents conversion                                                   *)
(* ---------------------------------------------------------------------- *)
\* the decimal amount times 100, truncated toward zero, computed on the digits
DecimalCents(s) ==
    LET u   == Unsigned(Strip(s))
        n   == DigitsVal(IntPart(u) \o FracPart(u))
        k   == Len(FracPart(u))
        mag == IF k >= 2 THEN n \div Pow10(k - 2) ELSE n * Pow10(2 - k)
    IN  IF IsNeg(s) THEN 0 - mag ELSE mag

\* C6: the cent amount of an entry is its decimal dollar amount times 100,
\* truncated toward zero (10.004 -> 1000, 0.005 -> 0, -10.006 -> -1000).
C6_CentsTruncateDecimal ==
    (pc = "loop" /\ idx >= 1) => amount_in_cents = DecimalCents(AmountText(idx))

(* ---------------------------------------------------------------------- *)
(* C7 - errors and the single write                                        *)
(* ---------------------------------------------------------------------- *)
\* C7: empty input raises before any record is built; a run that ends in an
\* error has neither opened nor written the output file; the file is written
\* exactly once, after all five record kinds exist.
C7_ErrorsBeforeWrite ==
    /\ (pc \notin {"start", "check"} /\ (amounts_data = <<>> \/ banks_data = <<>>))
         => /\ pc = "error" /\ err = "ValueError: empty"
            /\ file_header = <<>> /\ batch_header = <<>> /\ entry_details = <<>>
            /\ batch_control = <<>> /\ file_control = <<>>
    /\ pc = "error" => opens = 0 /\ writes = 0 /\ output_file = <<>>
    /\ opens <= 1 /\ writes <= 1
    /\ pc = "done" <=> writes = 1
    /\ writes = 1 =>
         /\ file_header # <<>> /\ batch_header # <<>> /\ batch_control # <<>>
         /\ file_control # <<>> /\ Len(entry_details) >= 94 * Pairs
         /\ output_file = nacha_content

\* the amount of the last of three pairs could not be parsed
C7_Witness ==
    /\ pc = "error" /\ err = "ValueError: float" /\ idx = 3 /\ Pairs = 3
    /\ entry_count = 2 /\ output_file = <<>>

(* ---------------------------------------------------------------------- *)
(* C8 - block count                                                        *)
(* ---------------------------------------------------------------------- *)
\* C8: the block count field of File Control is ((N + 4) // 10) + 1 on six
\* digits, N the number of Entry Detail lines: 2 -> 1, 6 -> 2, 16 -> 3.
C8_BlockCount ==
    LET L == Lines IN
    pc = "done" =>
      LET n  == Len(L) - 4
          fc == L[Len(L)]
      IN  /\ Field(fc, 8, 6) = Digits(((n + 4) \div 10) + 1, 6)
          /\ n = 2 => Field(fc, 8, 6) = <<"0","0","0","0","0","1">>
          /\ n = 6 => Field(fc, 8, 6) = <<"0","0","0","0","0","2">>
          /\ n = 16 => Field(fc, 8, 6) = <<"0","0","0","0","0","3">>

\* a file of 16 entries has been written
C8_Witness ==
    LET L == Lines IN
    /\ pc = "done" /\ Len(L) = 20
    /\ Field(L[20], 8, 6) = <<"0","0","0","0","0","3">>

(* ---------------------------------------------------------------------- *)
(* C9 - trace numbers and batch number                                     *)
(* ---------------------------------------------------------------------- *)
\* C9: the trace number closing the k-th Entry Detail line is the originating
\* DFI followed by k on seven digits, so trace numbers start at 1, step by 1 and
\* never repeat; the batch number closing Batch Control is the one closing
\* Batch Header, "0000001", for every N.
C9_TraceAndBatchNumber ==
    LET L == Lines IN
    pc = "done" =>
      /\ \A k \in 1..Pairs :
            Suffix(L[2 + k], 15) = <<"1","2","3","4","5","6","7","8">> \o Digits(k, 7)
      /\ Cardinality({Suffix(L[2 + k], 15) : k \in 1..Pairs}) = Pairs
      /\ Suffix(L[Pairs + 3], 7) = Suffix(L[2], 7)
      /\ Suffix(L[2], 7) = <<"0","0","0","0","0","0","1">>

\* a file of three entries has been written; its last trace number ends in 0000003
C9_Witness ==
    LET L == Lines IN
    /\ pc = "done" /\ Pairs = 3 /\ batch_num = 4
    /\ Suffix(L[5], 7) = <<"0","0","0","0","0","0","3">>

(* ---------------------------------------------------------------------- *)
(* C10 - pairing of the two inputs                                         *)
(* ---------------------------------------------------------------------- *)
\* row k of either input cannot be encoded
BadRow(k) ==
    \/ Strip(banks_data[k]["Receiving DFI"]) = <<>>
    \/ ~AllDigits(Strip(Ljust(Prefix(Strip(banks_data[k]["Receiving DFI"]), 8), 8)))
    \/ ~PyFloatOk(AmountText(k))

\* C10: bank row i is paired with amount row i; the pairing raises an error only
\* when one of the inputs has no rows; two non-empty inputs of different lengths
\* give min(len) Entry Detail lines, the surplus rows are dropped without error,
\* and count, hash and totals of both control records cover the paired rows only.
C10_Pairing ==
    LET L == Lines IN
    /\ err = "ValueError: empty" <=>
          (pc = "error" /\ (amounts_data = <<>> \/ banks_data = <<>>))
    /\ (pc = "error" /\ err # "ValueError: empty") =>
          idx \in 1..Min(Len(banks_data), Len(amounts_data)) /\ BadRow(idx)
    /\ (pc = "loop" /\ idx = Min(Len(banks_data), Len(amounts_data))) =>
          ENABLED BatchControl
    /\ pc = "done" =>
         LET n  == Min(Len(banks_data), Len(amounts_data))
             bc == L[Len(L) - 1]
             fc == L[Len(L)]
         IN  /\ Cardinality({k \in DOMAIN L : L[k][1] = "6"}) = n
             /\ idx = n
             /\ \A k \in 1..n :
                   /\ Field(L[2 + k], 4, 8) = ReceivingDfi(banks_data[k])
                   /\ Field(L[2 + k], 30, Len(FormatZero(Cents(k), 10)))
                        = FormatZero(Cents(k), 10)
                   /\ amounts_data[k] = amounts_csv[k]
                   /\ banks_data[k] = banks_csv[k]
             /\ Field(bc, 5, 6) = Digits(n, 6) /\ Field(fc, 14, 8) = Digits(n, 8)
             /\ Field(bc, 11, 10) = HashField(HashSumStr(n))
             /\ Field(fc, 22, 10) = HashField(HashSumStr(n))
             /\ total_credit = CreditSum(n) /\ total_debit = DebitSum(n)
             /\ Field(bc, 21, 24) = FormatZero(DebitSum(n), 12) \o FormatZero(CreditSum(n), 12)
             /\ Field(fc, 32, 24) = Field(bc, 21, 24)

\* three bank rows and one amount row gave a file of one entry
C10_Witness ==
    LET L == Lines IN
    /\ pc = "done" /\ Len(banks_data) = 3 /\ Len(amounts_data) = 1
    /\ Len(L) = 5 /\ entry_count = 1

====
